---- MODULE Spec2Model ----
(***************************************************************************)
(* The governance proposal form (ProposalForm) with its two integration    *)
(* modules: utils/web3.ts (wallet connect, on-chain propose, voting power) *)
(* and utils/proposals.ts (mock submission).                               *)
(*                                                                         *)
(* The state is the component's React state plus the position of every     *)
(* asynchronous handler that is suspended at an await, and the part of the *)
(* browser the handlers read (window.ethereum, the wallet's chain).        *)
(* One action is one run of JavaScript between two awaits: an event        *)
(* handler up to its first await, or the continuation of a settled         *)
(* promise up to the next await or the end of the handler.                 *)
(***************************************************************************)
EXTENDS Integers, Sequences, FiniteSets, TLC

VARIABLES
    formData,         \* useState<ProposalData>
    isSubmitting,     \* useState(false)
    message,          \* useState<{text, type} | null>
    walletConnected,  \* useState(false)
    walletAddress,    \* useState<string | null>
    signer,           \* useState<ethers.Signer | null>
    votingPower,      \* useState<string | null>
    ethereum,         \* window.ethereum is defined
    chainId,          \* the chain the wallet is on
    onSubmit,         \* the optional onSubmit prop
    conn,             \* the handleConnectWallet invocations, by slot
    sub,              \* the handleSubmit invocation
    vp,               \* balanceOf calls in flight, by address
    mockIds,          \* the proposalIds submitProposal has returned (MockSpec)
    ev                \* the step taken last and what it returned

vars == <<formData, isSubmitting, message, walletConnected, walletAddress,
          signer, votingPower, ethereum, chainId, onSubmit, conn, sub, vp,
          mockIds, ev>>

(***************************************************************************)
(* Bounds of the model and constants of the program.                       *)
(***************************************************************************)
MaxConnects == 1

SEPOLIA_CHAIN_ID == 11155111
CHAIN_NOT_ADDED == 4902
MOCK_DELAY_MS == 1500
VOTING_PERIOD_MIN == 1
VOTING_PERIOD_MAX == 30
DEFAULT_VOTING_PERIOD == 7

NETWORK_NAME == "Sepolia Testnet"
GOVERNOR_CONTRACT_ADDRESS == "0xceb8CB84415bb7712f1B34f628f00d805cd6740B"
TIMELOCK_CONTRACT_ADDRESS == "0xF269cFe75b406B074a93cDEa74B7338D6257F9C9"

Null == "null"
Undefined == "undefined"

Slots == 1..MaxConnects

(***************************************************************************)
(* JavaScript values.  A number is a record, so that NaN is a number that  *)
(* equals no integer.                                                      *)
(***************************************************************************)
NaN == [nan |-> TRUE, val |-> 0]
Num(n) == [nan |-> FALSE, val |-> n]

\* A string is truthy unless it is empty (null and undefined are falsy).
Truthy(s) == s # "" /\ s # Null /\ s # Undefined

\* a || b on strings
OrElse(a, b) == IF Truthy(a) THEN a ELSE b

\* String.prototype.slice(from, to) with 0 <= from <= to
Slice(s, from, to) ==
    LET hi == IF to > Len(s) THEN Len(s) ELSE to
    IN  SubSeq(s, from + 1, hi)

\* String.prototype.slice(-n)
SliceLast(s, n) ==
    IF n >= Len(s) THEN s ELSE SubSeq(s, Len(s) - n + 1, Len(s))

Digits == <<"0", "1", "2", "3", "4", "5", "6", "7", "8", "9">>
IsDigit(c) == \E d \in 1..10 : Digits[d] = c
DigitVal(c) == (CHOOSE d \in 1..10 : Digits[d] = c) - 1

\* The value of the longest run of decimal digits of s starting at i,
\* given the value acc of the digits read so far.
RECURSIVE ReadDigits(_, _, _)
ReadDigits(s, i, acc) ==
    IF i > Len(s) \/ ~IsDigit(SubSeq(s, i, i)) THEN acc
    ELSE ReadDigits(s, i + 1, 10 * acc + DigitVal(SubSeq(s, i, i)))

\* The first index of s at or after i that holds no white space.
RECURSIVE SkipSpace(_, _)
SkipSpace(s, i) ==
    IF i <= Len(s) /\ SubSeq(s, i, i) = " " THEN SkipSpace(s, i + 1) ELSE i

\* parseInt(value): leading white space, an optional sign, then the longest
\* prefix of decimal digits; NaN when there is no digit.
parseInt(s) ==
    LET i == SkipSpace(s, 1)
        signed == i <= Len(s) /\ SubSeq(s, i, i) \in {"-", "+"}
        neg == signed /\ SubSeq(s, i, i) = "-"
        j == IF signed THEN i + 1 ELSE i
    IN  IF j > Len(s) \/ ~IsDigit(SubSeq(s, j, j)) THEN NaN
        ELSE Num(IF neg THEN 0 - ReadDigits(s, j, 0) ELSE ReadDigits(s, j, 0))

(***************************************************************************)
(* The form.                                                               *)
(***************************************************************************)
ProposalTypes == {"general", "treasury", "parameter"}

InitialFormData ==
    [title |-> "", description |-> "",
     votingPeriod |-> Num(DEFAULT_VOTING_PERIOD), proposalType |-> "general"]

\* What the user can leave in each field.  A number input reports "" for
\* text that is no number.
TitleInputs == {"", "Raise quorum"}
DescriptionInputs == {"", "Raise the quorum by 3 votes"}
VotingPeriodInputs == {"", "0", "30", "31"}

FieldInputs(name) ==
    CASE name = "title" -> TitleInputs
      [] name = "description" -> DescriptionInputs
      [] name = "votingPeriod" -> VotingPeriodInputs
      [] name = "proposalType" -> ProposalTypes

FieldNames == {"title", "description", "votingPeriod", "proposalType"}

NoMessage == [text |-> "", type |-> Null]
Msg(text, type) == [text |-> text, type |-> type]


\* handleChange: the new formData after a change event on field `name`.
handleChange(fd, name, value) ==
    [fd EXCEPT ![name] = IF name = "votingPeriod" THEN parseInt(value) ELSE value]

\* checkValidity with the title input not required
checkValidity_titleOptional(fd) ==
    /\ fd.description # ""
    /\ fd.proposalType # ""
    /\ ~fd.votingPeriod.nan
    /\ fd.votingPeriod.val >= VOTING_PERIOD_MIN
    /\ fd.votingPeriod.val <= VOTING_PERIOD_MAX

\* checkValidity with no max on the votingPeriod input
checkValidity_noMax(fd) ==
    /\ fd.title # ""
    /\ fd.description # ""
    /\ fd.proposalType # ""
    /\ ~fd.votingPeriod.nan
    /\ fd.votingPeriod.val >= VOTING_PERIOD_MIN

\* The form's constraint validation, which the browser runs before it fires
\* the submit event: title, description and votingPeriod are required, and
\* votingPeriod is a number input with min and max.  A NaN value renders
\* as an empty number input.
checkValidity(fd) ==
    /\ fd.title # ""
    /\ fd.description # ""
    /\ fd.proposalType # ""
    /\ ~fd.votingPeriod.nan
    /\ fd.votingPeriod.val >= VOTING_PERIOD_MIN
    /\ fd.votingPeriod.val <= VOTING_PERIOD_MAX

\* The submit button's disabled attribute.
submitDisabled(submitting, connected, power) ==
    submitting \/ (~connected /\ power = "0")

\* The fields left enabled while submitting
fieldsDisabled_never(submitting) == FALSE

\* The form fields' disabled attribute.
fieldsDisabled(submitting) == submitting

\* The Connect Wallet button is rendered, and is enabled.
connectButtonEnabled(submitting, connected) == ~connected /\ ~submitting

\* useOnChain with the two branches swapped
useOnChain_swapped(connected, sg) == ~(connected /\ sg # Null)

\* handleSubmit's choice of the on-chain path.
useOnChain(connected, sg) == connected /\ sg # Null

(***************************************************************************)
(* What the external calls can throw.  isError is `instanceof Error`.      *)
(***************************************************************************)
JsError(msg) == [isError |-> TRUE, message |-> msg, code |-> 0]

UserRejectedError ==
    [isError |-> TRUE, message |-> "User rejected the request.", code |-> 4001]
UserRejectedObject ==
    [isError |-> FALSE, message |-> "User rejected the request.", code |-> 4001]
UnrecognizedChain ==
    [isError |-> FALSE, message |-> "Unrecognized chain ID", code |-> CHAIN_NOT_ADDED]

RequestErrors == {UserRejectedError, UserRejectedObject}
SwitchErrors == {UserRejectedError, UnrecognizedChain}
NetworkErrors == {JsError("could not detect network")}
SignerErrors == {JsError("network changed")}
ProposeErrors == {JsError("user rejected action")}
WaitErrors == {JsError("transaction execution reverted")}
BalanceErrors == {JsError("missing revert data")}
\* What onSubmit may throw: an Error, or a value that is not one
OnSubmitErrors ==
    {JsError("onSubmit failed"),
     [isError |-> FALSE, message |-> "onSubmit rejected", code |-> 0]}
NoError == [isError |-> FALSE, message |-> "", code |-> 0]

\* error instanceof Error ? error.message : fallback
errorMessage(error, fallback) ==
    IF error.isError THEN error.message ELSE fallback

(***************************************************************************)
(* Results of the integration modules.  A field a result does not have is  *)
(* undefined.                                                              *)
(***************************************************************************)
NoResult ==
    [success |-> FALSE, error |-> Undefined, message |-> Undefined,
     proposalId |-> Undefined, transactionHash |-> Undefined,
     address |-> Undefined, signer |-> Undefined, balance |-> Undefined]

\* The accounts of the wallet.
Accounts == {"0x663d3FC1a358548c12f635de2aaca31FC637ABC6"}

\* provider.getSigner() for an account
SignerOf(account) == "JsonRpcSigner(" \o account \o ")"

\* connectWalletNoProvider without its error text
connectWalletNoProvider_noError == NoResult

\* connectWallet: the branch without window.ethereum
connectWalletNoProvider ==
    [NoResult EXCEPT !.error = "MetaMask not installed"]

\* connectWallet: the catch block
connectWalletFailure(error) ==
    [NoResult EXCEPT !.error = errorMessage(error, "Failed to connect wallet")]

\* connectWallet: what the catch block of the network switch rethrows
switchFailure(switchError) ==
    IF switchError.code = CHAIN_NOT_ADDED
    THEN JsError("Please add the " \o NETWORK_NAME \o " network to your wallet")
    ELSE switchError

\* connectWallet: the result with the signer and its address
connectWalletSuccess(account) ==
    [NoResult EXCEPT !.success = TRUE, !.address = account,
                     !.signer = SignerOf(account)]

\* connectWallet taking every chain for Sepolia
needsSwitch_never(chain) == FALSE

\* connectWallet: whether the network has to be switched
needsSwitch(chain) == chain # SEPOLIA_CHAIN_ID


(***************************************************************************)
(* Token amounts.  A uint256 amount of wei is kept as its whole tokens and *)
(* the 18 decimal digits of its fraction.                                  *)
(***************************************************************************)
RECURSIVE StripTrailingZeros(_)
StripTrailingZeros(s) ==
    IF Len(s) > 0 /\ SubSeq(s, Len(s), Len(s)) = "0"
    THEN StripTrailingZeros(SubSeq(s, 1, Len(s) - 1))
    ELSE s

\* ethers.formatEther: the decimal string, with at least one fraction digit
formatEther(wei) ==
    LET frac == StripTrailingZeros(wei.frac)
    IN  ToString(wei.whole) \o "." \o (IF frac = "" THEN "0" ELSE frac)

ZeroWei == [whole |-> 0, frac |-> "000000000000000000"]
Balances == {ZeroWei, [whole |-> 100, frac |-> "500000000000000000"]}

\* getVotingPower: the result with the formatted balance, and the catch block
getVotingPowerSuccess(wei) ==
    [NoResult EXCEPT !.success = TRUE, !.balance = formatEther(wei)]
getVotingPowerFailure(error) ==
    [NoResult EXCEPT !.error = errorMessage(error, "Failed to get voting power")]

(***************************************************************************)
(* Submission results.                                                     *)
(***************************************************************************)
\* Math.random().toString(36).substring(2, 10)
RandomSuffixes == {"4fzyo82m", "i"}

\* submitProposal returning from its catch block
submitProposalResult_failed(suffix) ==
    [NoResult EXCEPT !.message = "Failed to submit proposal"]

\* submitProposal: the mock result, returned when the timer has fired
submitProposalResult(suffix) ==
    [NoResult EXCEPT !.success = TRUE,
                     !.message = "Proposal submitted successfully",
                     !.proposalId = "prop_" \o suffix]

TxHashes == {"0xce7230110b64ac896e6d82ac81835a331941657caa581eba91ae8e7dbd7f85d6",
             "0x5c504ed432cb51138bcf09aa5e8a410dd4a1e204ef84bfed1be16dfba1b22060"}

NumberToString(n) == IF n.nan THEN "NaN" ELSE ToString(n.val)

\* submitGovernanceProposal: the description string of the proposal
proposalDescription(data) ==
    "# " \o data.title \o "\n\n" \o data.description \o "\n\nType: "
    \o data.proposalType \o "\nVoting Period: "
    \o NumberToString(data.votingPeriod) \o " days"

\* submitGovernanceProposal: the propose call it makes
proposeCall(data) ==
    [to |-> GOVERNOR_CONTRACT_ADDRESS, targets |-> <<TIMELOCK_CONTRACT_ADDRESS>>,
     values |-> <<"0">>, calldatas |-> <<"0x">>,
     description |-> proposalDescription(data),
     hash |-> Null, sent |-> FALSE, mined |-> FALSE]

NoTx ==
    [to |-> Null, targets |-> <<>>, values |-> <<>>, calldatas |-> <<>>,
     description |-> "", hash |-> Null, sent |-> FALSE, mined |-> FALSE]

\* the receipt tx.wait() resolves with
receiptOf(tx) == [hash |-> tx.hash]

\* submitGovernanceProposal: the result once the transaction is mined
submitGovernanceProposalSuccess(receipt) ==
    [NoResult EXCEPT !.success = TRUE, !.proposalId = receipt.hash,
                     !.transactionHash = receipt.hash]

\* submitGovernanceProposal: the catch block
submitGovernanceProposalFailure(error) ==
    [NoResult EXCEPT !.error = errorMessage(error, "Failed to submit proposal")]

(***************************************************************************)
(* Handler invocations.                                                    *)
(***************************************************************************)
\* An invocation of handleConnectWallet: where connectWallet is, the requests
\* it has made, whether the accounts were granted, the chain id getNetwork
\* returned (0 before it has) and how the switch request ended.
IdleConn ==
    [pc |-> "idle", nRequestAccounts |-> 0, nSwitch |-> 0, accounts |-> FALSE,
     chain |-> 0, switched |-> "none", switchCode |-> 0]

NoTimer == [delay |-> 0, state |-> "unset"]

IdleSub ==
    [pc |-> "idle", data |-> InitialFormData, signer |-> Null,
     connected |-> FALSE, nOnSubmit |-> 0, nGov |-> 0, nMock |-> 0,
     nPropose |-> 0, nWait |-> 0, tx |-> NoTx, timer |-> NoTimer,
     outcome |-> "none", overlap |-> FALSE, thrown |-> NoError]

\* The step taken last: its name, the result it returned to its handler and,
\* when it ended a handleSubmit, that invocation.
Ev(op, slot, result) == [op |-> op, slot |-> slot, result |-> result, inv |-> IdleSub]
EvSub(op, result, inv) == [op |-> op, slot |-> 0, result |-> result, inv |-> inv]

wallet == <<walletConnected, walletAddress, signer>>
environment == <<ethereum, chainId, onSubmit>>

Init ==
    /\ formData = InitialFormData
    /\ isSubmitting = FALSE
    /\ message = NoMessage
    /\ walletConnected = FALSE
    /\ walletAddress = Null
    /\ signer = Null
    /\ votingPower = Null
    /\ ethereum \in BOOLEAN
    /\ chainId \in {1, SEPOLIA_CHAIN_ID}
    /\ onSubmit \in {Undefined, "callback"}
    /\ conn = [i \in Slots |-> IdleConn]
    /\ sub = IdleSub
    /\ vp = [a \in Accounts |-> 0]
    /\ mockIds = {}
    /\ ev = Ev("mount", 0, NoResult)


(***************************************************************************)
(* The form fields.                                                        *)
(***************************************************************************)
\* A change event on an enabled field.
HandleChange(name, value) ==
    /\ ~fieldsDisabled(isSubmitting)
    /\ formData' = handleChange(formData, name, value)
    /\ ev' = Ev("change", 0, NoResult)
    /\ UNCHANGED <<isSubmitting, message, wallet, votingPower, environment,
                   conn, sub, vp, mockIds>>

\* The wallet extension injects window.ethereum.
InjectProvider ==
    /\ ~ethereum
    /\ ethereum' = TRUE
    /\ ev' = Ev("inject", 0, NoResult)
    /\ UNCHANGED <<formData, isSubmitting, message, wallet, votingPower,
                   chainId, onSubmit, conn, sub, vp, mockIds>>

(***************************************************************************)
(* handleConnectWallet and connectWallet.                                  *)
(***************************************************************************)
\* handleConnectWalletResult without setSigner(result.signer)
handleConnectWalletResult_noSigner(result) ==
    IF result.success /\ Truthy(result.address)
    THEN /\ walletConnected' = TRUE
         /\ walletAddress' = result.address
         /\ UNCHANGED signer
         /\ message' = Msg("Connected: " \o Slice(result.address, 0, 6) \o "..."
                           \o SliceLast(result.address, 4), "success")
    ELSE /\ message' = Msg(OrElse(result.error, "Failed to connect wallet"), "error")
         /\ UNCHANGED wallet

\* handleConnectWallet after `await connectWallet()`
handleConnectWalletResult(result) ==
    IF result.success /\ Truthy(result.address)
    THEN /\ walletConnected' = TRUE
         /\ walletAddress' = result.address
         /\ signer' = result.signer
         /\ message' = Msg("Connected: " \o Slice(result.address, 0, 6) \o "..."
                           \o SliceLast(result.address, 4), "success")
    ELSE /\ message' = Msg(OrElse(result.error, "Failed to connect wallet"), "error")
         /\ UNCHANGED wallet

\* The effect on [walletConnected, walletAddress]: fetchVotingPower calls
\* getVotingPower, which calls balanceOf unless there is no provider.
useEffectVotingPower ==
    IF /\ <<walletConnected', walletAddress'>> # <<walletConnected, walletAddress>>
       /\ walletConnected'
       /\ Truthy(walletAddress')
    THEN IF ethereum
         THEN vp' = [vp EXCEPT ![walletAddress'] = @ + 1]
         ELSE UNCHANGED vp
    ELSE UNCHANGED vp

\* connectWallet has returned `result` to invocation i of handleConnectWallet.
ConnectReturns(i, result) ==
    /\ handleConnectWalletResult(result)
    /\ useEffectVotingPower
    /\ ev' = Ev("connectDone", i, result)
    /\ UNCHANGED <<formData, isSubmitting, votingPower, ethereum, onSubmit,
                   sub, mockIds>>

\* A click on Connect Wallet.  Without a provider connectWallet returns at
\* once; with one it requests the accounts.
HandleConnectWallet(i) ==
    /\ connectButtonEnabled(isSubmitting, walletConnected)
    /\ conn[i].pc = "idle"
    /\ \A j \in Slots : j < i => conn[j].pc # "idle"
    /\ IF ethereum
       THEN /\ message' = Msg("Connecting to wallet...", "info")
            /\ conn' = [conn EXCEPT ![i] =
                          [IdleConn EXCEPT !.pc = "requestAccounts",
                                           !.nRequestAccounts = 1]]
            /\ ev' = Ev("connectClick", i, NoResult)
            /\ UNCHANGED <<formData, isSubmitting, wallet, votingPower,
                           environment, sub, vp, mockIds>>
       ELSE /\ conn' = [conn EXCEPT ![i] = IdleConn]
            /\ ConnectReturns(i, connectWalletNoProvider)
            /\ UNCHANGED chainId

\* eth_requestAccounts resolves: connectWallet asks the provider's network.
RequestAccountsResolve(i) ==
    /\ conn[i].pc = "requestAccounts"
    /\ conn' = [conn EXCEPT ![i].pc = "getNetwork", ![i].accounts = TRUE]
    /\ ev' = Ev("accounts", i, NoResult)
    /\ UNCHANGED <<formData, isSubmitting, message, wallet, votingPower,
                   environment, sub, vp, mockIds>>

\* RequestAccountsReject asking for the accounts once more
RequestAccountsReject_retry(i, error) ==
    /\ conn[i].pc = "requestAccounts"
    /\ conn[i].nRequestAccounts < 2
    /\ conn' = [conn EXCEPT ![i].nRequestAccounts = @ + 1]
    /\ ev' = Ev("accounts", i, NoResult)
    /\ UNCHANGED <<formData, isSubmitting, message, wallet, votingPower,
                   environment, sub, vp, mockIds>>

RequestAccountsReject(i, error) ==
    /\ conn[i].pc = "requestAccounts"
    /\ conn' = [conn EXCEPT ![i].pc = "idle"]
    /\ ConnectReturns(i, connectWalletFailure(error))
    /\ UNCHANGED chainId

\* getNetwork resolves: on another chain connectWallet asks the wallet to
\* switch, on Sepolia it asks for the signer.
GetNetworkResolve(i) ==
    /\ conn[i].pc = "getNetwork"
    /\ IF needsSwitch(chainId)
       THEN conn' = [conn EXCEPT ![i].pc = "switchChain", ![i].nSwitch = @ + 1,
                                 ![i].chain = chainId]
       ELSE conn' = [conn EXCEPT ![i].pc = "getSigner", ![i].chain = chainId]
    /\ ev' = Ev("network", i, NoResult)
    /\ UNCHANGED <<formData, isSubmitting, message, wallet, votingPower,
                   environment, sub, vp, mockIds>>

GetNetworkReject(i, error) ==
    /\ conn[i].pc = "getNetwork"
    /\ conn' = [conn EXCEPT ![i].pc = "idle"]
    /\ ConnectReturns(i, connectWalletFailure(error))
    /\ UNCHANGED chainId

\* wallet_switchEthereumChain resolves: the wallet is on Sepolia.
SwitchChainResolve(i) ==
    /\ conn[i].pc = "switchChain"
    /\ chainId' = SEPOLIA_CHAIN_ID
    /\ conn' = [conn EXCEPT ![i].pc = "getSigner", ![i].switched = "ok"]
    /\ ev' = Ev("switched", i, NoResult)
    /\ UNCHANGED <<formData, isSubmitting, message, wallet, votingPower,
                   ethereum, onSubmit, sub, vp, mockIds>>

SwitchChainReject(i, switchError) ==
    /\ conn[i].pc = "switchChain"
    /\ conn' = [conn EXCEPT ![i].pc = "idle", ![i].switched = "failed",
                             ![i].switchCode = switchError.code]
    /\ ConnectReturns(i, connectWalletFailure(switchFailure(switchError)))
    /\ UNCHANGED chainId

\* getSigner and getAddress resolve for the wallet's selected account.
GetSignerResolve(i, account) ==
    /\ conn[i].pc = "getSigner"
    /\ conn' = [conn EXCEPT ![i].pc = "idle"]
    /\ ConnectReturns(i, connectWalletSuccess(account))
    /\ UNCHANGED chainId

GetSignerReject(i, error) ==
    /\ conn[i].pc = "getSigner"
    /\ conn' = [conn EXCEPT ![i].pc = "idle"]
    /\ ConnectReturns(i, connectWalletFailure(error))
    /\ UNCHANGED chainId

(***************************************************************************)
(* fetchVotingPower and getVotingPower.                                    *)
(***************************************************************************)
\* fetchVotingPower after `await getVotingPower(address)`
fetchVotingPowerResult(result) ==
    IF result.success /\ Truthy(result.balance)
    THEN votingPower' = result.balance
    ELSE UNCHANGED votingPower

BalanceOfResolve(address, wei) ==
    /\ vp[address] > 0
    /\ vp' = [vp EXCEPT ![address] = @ - 1]
    /\ fetchVotingPowerResult(getVotingPowerSuccess(wei))
    /\ ev' = Ev("votingPower", 0, getVotingPowerSuccess(wei))
    /\ UNCHANGED <<formData, isSubmitting, message, wallet, environment,
                   conn, sub, mockIds>>

BalanceOfReject(address, error) ==
    /\ vp[address] > 0
    /\ vp' = [vp EXCEPT ![address] = @ - 1]
    /\ fetchVotingPowerResult(getVotingPowerFailure(error))
    /\ ev' = Ev("votingPower", 0, getVotingPowerFailure(error))
    /\ UNCHANGED <<formData, isSubmitting, message, wallet, environment,
                   conn, sub, mockIds>>


(***************************************************************************)
(* handleSubmit, submitGovernanceProposal and submitProposal.              *)
(***************************************************************************)
\* handleSubmit: the reset of the form after a successful submission
resetForm == InitialFormData

\* handleSubmitGovResult without the reset of the form
handleSubmitGovResult_noReset(result) ==
    /\ IF result.success
       THEN message' = Msg("Proposal submitted on-chain! Transaction: "
                           \o Slice(result.transactionHash, 0, 10) \o "...",
                           "success")
       ELSE message' = Msg(OrElse(result.error,
                                  "Failed to submit proposal to blockchain"),
                           "error")
    /\ UNCHANGED formData
    /\ isSubmitting' = FALSE

\* handleSubmit after `await submitGovernanceProposal(signer, formData)`,
\* with its finally block
handleSubmitGovResult(result) ==
    /\ IF result.success
       THEN /\ message' = Msg("Proposal submitted on-chain! Transaction: "
                              \o Slice(result.transactionHash, 0, 10) \o "...",
                              "success")
            /\ formData' = resetForm
       ELSE /\ message' = Msg(OrElse(result.error,
                                     "Failed to submit proposal to blockchain"),
                              "error")
            /\ UNCHANGED formData
    /\ isSubmitting' = FALSE

\* handleSubmitMockResult without the finally block
handleSubmitMockResult_noFinally(result) ==
    /\ IF result.success
       THEN /\ message' = Msg("Proposal submitted (mock)! Proposal ID: "
                              \o result.proposalId, "success")
            /\ formData' = resetForm
       ELSE /\ message' = Msg(OrElse(result.message, "Failed to submit proposal"),
                              "error")
            /\ UNCHANGED formData
    /\ UNCHANGED isSubmitting

\* handleSubmit after `await submitProposal(formData)`, with its finally block
handleSubmitMockResult(result) ==
    /\ IF result.success
       THEN /\ message' = Msg("Proposal submitted (mock)! Proposal ID: "
                              \o result.proposalId, "success")
            /\ formData' = resetForm
       ELSE /\ message' = Msg(OrElse(result.message, "Failed to submit proposal"),
                              "error")
            /\ UNCHANGED formData
    /\ isSubmitting' = FALSE

\* handleSubmitCatch clearing the form as a successful submission does
handleSubmitCatch_reset(error) ==
    /\ message' = Msg(errorMessage(error, "An unexpected error occurred"), "error")
    /\ isSubmitting' = FALSE
    /\ formData' = resetForm

\* handleSubmit's catch and finally blocks
handleSubmitCatch(error) ==
    /\ message' = Msg(errorMessage(error, "An unexpected error occurred"), "error")
    /\ isSubmitting' = FALSE
    /\ UNCHANGED formData

\* The invocation of handleSubmit that a submit event starts.
startSubmit(called) ==
    [IdleSub EXCEPT !.data = formData, !.signer = signer,
                    !.connected = walletConnected, !.nOnSubmit = called,
                    !.overlap = (sub.pc # "idle")]

\* The submit event reaches handleSubmit: the browser fires it when the
\* submit button is enabled and the form is valid.
submitEvent ==
    /\ ~submitDisabled(isSubmitting, walletConnected, votingPower)
    /\ checkValidity(formData)

\* handleSubmit calling onSubmit a second time
onSubmitCalls_twice == IF onSubmit = Undefined THEN 0 ELSE 2

\* The number of calls `onSubmit?.(formData)` makes
onSubmitCalls == IF onSubmit = Undefined THEN 0 ELSE 1

\* handleSubmit runs up to its first await: onSubmit returns (or is not
\* given), then the propose call is made or the mock's timer is set.
HandleSubmit ==
    /\ submitEvent
    /\ isSubmitting' = TRUE
    /\ IF useOnChain(walletConnected, signer)
       THEN /\ message' = Msg("Submitting proposal to blockchain...", "info")
            /\ sub' = [startSubmit(onSubmitCalls) EXCEPT
                         !.pc = "propose", !.nGov = 1, !.nPropose = 1,
                         !.tx = proposeCall(formData)]
       ELSE /\ message' = Msg("Processing submission...", "info")
            /\ sub' = [startSubmit(onSubmitCalls) EXCEPT
                         !.pc = "timer", !.nMock = 1,
                         !.timer = [delay |-> MOCK_DELAY_MS, state |-> "pending"]]
    /\ ev' = Ev("submit", 0, NoResult)
    /\ UNCHANGED <<formData, wallet, votingPower, environment, conn, vp, mockIds>>

\* handleSubmit when onSubmit throws: the catch and finally blocks run
\* before any await.
HandleSubmitThrows(error) ==
    /\ submitEvent
    /\ onSubmitCalls = 1
    /\ handleSubmitCatch(error)
    /\ sub' = IdleSub
    /\ ev' = EvSub("submitThrew", NoResult,
                   [startSubmit(onSubmitCalls) EXCEPT !.outcome = "threw",
                                                      !.thrown = error])
    /\ UNCHANGED <<wallet, votingPower, environment, conn, vp, mockIds>>

\* submitGovernanceProposal has returned `result` to handleSubmit, whose
\* invocation `inv` ends.
GovReturns(result, inv) ==
    /\ handleSubmitGovResult(result)
    /\ sub' = IdleSub
    /\ ev' = EvSub("govDone", result,
                   [inv EXCEPT !.pc = "idle",
                               !.outcome = IF result.success THEN "success"
                                           ELSE "failure"])
    /\ UNCHANGED <<wallet, votingPower, environment, conn, vp, mockIds>>

\* ProposeResolve returning the sent transaction without awaiting tx.wait()
ProposeResolve_noWait(hash) ==
    /\ sub.pc = "propose"
    /\ LET sent == [sub EXCEPT !.tx.hash = hash, !.tx.sent = TRUE]
       IN  GovReturns(submitGovernanceProposalSuccess(receiptOf(sent.tx)), sent)

\* propose resolves with the transaction sent: tx.wait() is awaited.
ProposeResolve(hash) ==
    /\ sub.pc = "propose"
    /\ sub' = [sub EXCEPT !.pc = "wait", !.nWait = @ + 1,
                          !.tx.hash = hash, !.tx.sent = TRUE]
    /\ ev' = Ev("proposed", 0, NoResult)
    /\ UNCHANGED <<formData, isSubmitting, message, wallet, votingPower,
                   environment, conn, vp, mockIds>>

ProposeReject(error) ==
    /\ sub.pc = "propose"
    /\ GovReturns(submitGovernanceProposalFailure(error), sub)

\* tx.wait() resolves with the receipt of the mined transaction.
WaitResolve ==
    /\ sub.pc = "wait"
    /\ LET mined == [sub EXCEPT !.tx.mined = TRUE]
       IN  GovReturns(submitGovernanceProposalSuccess(receiptOf(mined.tx)), mined)

WaitReject(error) ==
    /\ sub.pc = "wait"
    /\ GovReturns(submitGovernanceProposalFailure(error), sub)

\* The mock's timer fires: submitProposal returns a result with a random
\* identifier to handleSubmit, whose invocation ends.  With `logged` the
\* identifier is added to mockIds.
MockTimerFire(suffix, logged) ==
    /\ sub.pc = "timer"
    /\ sub.timer.state = "pending"
    /\ LET result == submitProposalResult(suffix)
       IN  /\ handleSubmitMockResult(result)
           /\ mockIds' = IF logged THEN mockIds \cup {result.proposalId} ELSE mockIds
           /\ ev' = EvSub("mockDone", result,
                          [sub EXCEPT !.pc = "idle", !.timer.state = "fired",
                                      !.outcome = IF result.success THEN "success"
                                                  ELSE "failure"])
    /\ sub' = IdleSub
    /\ UNCHANGED <<wallet, votingPower, environment, conn, vp>>

(***************************************************************************)
(* The specification.                                                      *)
(***************************************************************************)
Next ==
    \/ \E name \in FieldNames : \E value \in FieldInputs(name) :
          HandleChange(name, value)
    \/ InjectProvider
    \/ \E i \in Slots : HandleConnectWallet(i)
    \/ \E i \in Slots : RequestAccountsResolve(i)
    \/ \E i \in Slots : \E error \in RequestErrors : RequestAccountsReject(i, error)
    \/ \E i \in Slots : GetNetworkResolve(i)
    \/ \E i \in Slots : \E error \in NetworkErrors : GetNetworkReject(i, error)
    \/ \E i \in Slots : SwitchChainResolve(i)
    \/ \E i \in Slots : \E error \in SwitchErrors : SwitchChainReject(i, error)
    \/ \E i \in Slots : \E account \in Accounts : GetSignerResolve(i, account)
    \/ \E i \in Slots : \E error \in SignerErrors : GetSignerReject(i, error)
    \/ \E address \in Accounts : \E wei \in Balances : BalanceOfResolve(address, wei)
    \/ \E address \in Accounts : \E error \in BalanceErrors :
          BalanceOfReject(address, error)
    \/ HandleSubmit
    \/ \E error \in OnSubmitErrors : HandleSubmitThrows(error)
    \/ \E hash \in TxHashes : ProposeResolve(hash)
    \/ \E error \in ProposeErrors : ProposeReject(error)
    \/ WaitResolve
    \/ \E error \in WaitErrors : WaitReject(error)
    \/ \E suffix \in RandomSuffixes : MockTimerFire(suffix, FALSE)

Spec == Init /\ [][Next]_vars

\* The form without a wallet, every submission taking the mock path, with
\* the identifiers submitProposal returns recorded in mockIds.
MockNext ==
    \/ \E name \in FieldNames : \E value \in FieldInputs(name) :
          HandleChange(name, value)
    \/ HandleSubmit
    \/ \E error \in OnSubmitErrors : HandleSubmitThrows(error)
    \/ \E suffix \in RandomSuffixes : MockTimerFire(suffix, TRUE)

MockSpec == Init /\ [][MockNext]_vars


\* The promises handleSubmit awaits settle, and the mock's timer fires.
ProposeSettles ==
    \/ \E hash \in TxHashes : ProposeResolve(hash)
    \/ \E error \in ProposeErrors : ProposeReject(error)

WaitSettles ==
    \/ WaitResolve
    \/ \E error \in WaitErrors : WaitReject(error)

TimerFires == \E suffix \in RandomSuffixes : MockTimerFire(suffix, FALSE)

FairSpec ==
    /\ Spec
    /\ WF_vars(ProposeSettles)
    /\ WF_vars(WaitSettles)
    /\ WF_vars(TimerFires)

(***************************************************************************)
(* Properties.                                                             *)
(***************************************************************************)
\* The steps that end an invocation of handleSubmit
SubmitEnds == {"govDone", "mockDone", "submitThrew"}

RequiredFilled(data) == data.title # "" /\ data.description # ""

PeriodInRange(n) ==
    ~n.nan /\ n.val >= VOTING_PERIOD_MIN /\ n.val <= VOTING_PERIOD_MAX

\* C1: a form whose title or description is empty is never submitted: every
\* invocation of handleSubmit, pending or just ended, carries a title and a
\* description that are not empty, so no submission call and no success
\* message comes from such a form.
C1_EmptyFieldsRejected ==
    /\ sub.pc # "idle" => RequiredFilled(sub.data)
    /\ ev.op \in SubmitEnds => RequiredFilled(ev.inv.data)

\* C1 witness: the form holds a description and no title, the submit button
\* is enabled, and no submission has started.
C1_Witness ==
    /\ formData.title = ""
    /\ formData.description # ""
    /\ PeriodInRange(formData.votingPeriod)
    /\ ~submitDisabled(isSubmitting, walletConnected, votingPower)
    /\ ev.op = "change"
    /\ sub.pc = "idle"

\* C2 as stated: formData.votingPeriod is always an integer from 1 to 30.
C2_Original == PeriodInRange(formData.votingPeriod)

\* C2 amended: handleChange stores parseInt of the entered text unclamped,
\* and the votingPeriod of every submission, pending or just ended, is an
\* integer from 1 to 30.
C2_SubmittedPeriodInRange ==
    /\ sub.pc # "idle" => PeriodInRange(sub.data.votingPeriod)
    /\ ev.op \in SubmitEnds => PeriodInRange(ev.inv.data.votingPeriod)

\* C2 witness: a submission with the largest votingPeriod is pending.
C2_Witness ==
    /\ sub.pc # "idle"
    /\ sub.data.votingPeriod = Num(VOTING_PERIOD_MAX)

IsMockId(id) ==
    \E suffix \in RandomSuffixes : id = "prop_" \o suffix

\* C3 as stated: every mock submission succeeds with an identifier that no
\* earlier call has returned.
C3_Original ==
    [][(sub.pc = "timer" /\ sub'.pc = "idle")
         => /\ ev'.result.success
            /\ IsMockId(ev'.result.proposalId)
            /\ ev'.result.proposalId \notin mockIds]_vars

\* C3 amended: every mock submission returns, once its 1500 ms timer has
\* fired, success with the identifier "prop_" followed by a random suffix;
\* the suffix is random, so it may repeat an earlier one.
C3_MockAlwaysSucceeds ==
    /\ ev.op = "mockDone" =>
          /\ ev.result.success
          /\ IsMockId(ev.result.proposalId)
          /\ Slice(ev.result.proposalId, 0, 5) = "prop_"
          /\ ev.result.proposalId \in mockIds
          /\ ev.inv.nMock = 1
          /\ ev.inv.timer = [delay |-> MOCK_DELAY_MS, state |-> "fired"]
    /\ sub.pc = "timer" => sub.timer = [delay |-> MOCK_DELAY_MS, state |-> "pending"]

\* C3 witness: a mock submission has returned after another one with a
\* different identifier.
C3_Witness ==
    /\ ev.op = "mockDone"
    /\ Cardinality(mockIds) = 2

\* C4: without a provider a click on Connect Wallet makes no wallet request
\* and ends with the error message "MetaMask not installed", the wallet state
\* still disconnected and null.
C4_NoProviderError ==
    (ev.op = "connectDone" /\ ~ethereum) =>
        /\ ~ev.result.success
        /\ ev.result.error = "MetaMask not installed"
        /\ message = Msg("MetaMask not installed", "error")
        /\ ~walletConnected
        /\ walletAddress = Null
        /\ signer = Null
        /\ votingPower = Null
        /\ conn[ev.slot] = IdleConn
        /\ \A a \in Accounts : vp[a] = 0

\* C4 witness: a connect attempt has ended without a provider.
C4_Witness == ev.op = "connectDone" /\ ~ethereum

\* C5: when a submission returns success, on-chain or mock, the form is back
\* to its initial state and the message is a success message.
C5_SuccessClearsForm ==
    (ev.op \in {"govDone", "mockDone"} /\ ev.result.success) =>
        /\ formData = InitialFormData
        /\ message.type = "success"
        /\ ~isSubmitting

\* C5 witness: an on-chain submission of a form changed in every field has
\* returned success.
C5_Witness ==
    /\ ev.op = "govDone"
    /\ ev.result.success
    /\ ev.inv.data.title # ""
    /\ ev.inv.data.votingPeriod # InitialFormData.votingPeriod
    /\ ev.inv.data.proposalType # InitialFormData.proposalType

OnePath(inv) ==
    /\ inv.nGov + inv.nMock = 1
    /\ inv.nGov = 1 <=> (inv.connected /\ inv.signer # Null)

\* C6: an invocation of handleSubmit whose onSubmit has returned makes exactly
\* one of the two submission calls: submitGovernanceProposal if and only if
\* the wallet was connected, with a signer, when the submit event fired.
C6_OnePathBySession ==
    /\ sub.pc # "idle" => OnePath(sub)
    /\ sub.pc \in {"propose", "wait"} <=> sub.nGov = 1
    /\ sub.pc = "timer" <=> sub.nMock = 1
    /\ ev.op \in {"govDone", "mockDone"} => OnePath(ev.inv)
    /\ ev.op = "govDone" => ev.inv.nGov = 1
    /\ ev.op = "mockDone" => ev.inv.nMock = 1

\* C6 witness: an on-chain submission is pending for a connected wallet.
C6_Witness == sub.pc = "propose" /\ sub.connected /\ sub.nMock = 0

\* C7 as stated: every failed call returns an error text, and the UI then
\* shows that text as an error message.
C7_Original ==
    (ev.op \in {"connectDone", "govDone", "votingPower"} /\ ~ev.result.success) =>
        /\ Truthy(ev.result.error)
        /\ message = Msg(ev.result.error, "error")

\* C8: nothing is retried: an invocation makes at most one request of each
\* kind, and an invocation that has failed has no call pending.
C8_NothingRetried ==
    /\ \A i \in Slots : conn[i].nRequestAccounts <= 1 /\ conn[i].nSwitch <= 1
    /\ sub.nPropose <= 1 /\ sub.nWait <= 1 /\ sub.nMock <= 1
    /\ ev.inv.nPropose <= 1 /\ ev.inv.nWait <= 1 /\ ev.inv.nMock <= 1
    /\ (ev.op = "connectDone" /\ ~ev.result.success) => conn[ev.slot].pc = "idle"
    /\ (ev.op = "govDone" /\ ~ev.result.success) => sub.pc = "idle"

\* C8 witness: a connect attempt has failed after its one switch request.
C8_Witness ==
    /\ ev.op = "connectDone"
    /\ ~ev.result.success
    /\ conn[ev.slot].nRequestAccounts = 1
    /\ conn[ev.slot].nSwitch = 1

IsOnChainSuccess(m) ==
    m.type = "success" /\ Slice(m.text, 0, 27) = "Proposal submitted on-chain"

\* C9: submitGovernanceProposal returns success only for a transaction sent to
\* the Governor and then mined, with that transaction's hash; a failure has an
\* error and no hash; and the on-chain success message is not shown while the
\* transaction is pending.
C9_HashAfterMined ==
    /\ (ev.op = "govDone" /\ ev.result.success) =>
          /\ ev.inv.tx.to = GOVERNOR_CONTRACT_ADDRESS
          /\ ev.inv.tx.sent
          /\ ev.inv.tx.mined
          /\ ev.inv.nWait = 1
          /\ ev.inv.tx.hash \in TxHashes
          /\ ev.result.transactionHash = ev.inv.tx.hash
          /\ IsOnChainSuccess(message)
    /\ (ev.op = "govDone" /\ ~ev.result.success) =>
          /\ Truthy(ev.result.error)
          /\ ev.result.transactionHash = Undefined
          /\ ~ev.inv.tx.mined
    /\ sub.pc \in {"propose", "wait"} => ~IsOnChainSuccess(message)
    /\ IsOnChainSuccess(message) => ~isSubmitting

\* C9 witness: a mined transaction's hash has been returned.
C9_Witness ==
    /\ ev.op = "govDone"
    /\ ev.result.success
    /\ ev.inv.tx.mined

ZeroPower(power) == power = formatEther(ZeroWei)

\* C10 as stated: no on-chain submission starts for a connected wallet whose
\* fetched voting power is zero, the submit button being disabled for it.
C10_Original ==
    /\ (walletConnected /\ ZeroPower(votingPower) /\ ~isSubmitting) =>
          submitDisabled(isSubmitting, walletConnected, votingPower)
    /\ (ev.op = "submit" /\ sub.nGov = 1) => ~ZeroPower(votingPower)


SubmitInfoTexts ==
    {"Processing submission...", "Submitting proposal to blockchain..."}

\* C11: isSubmitting is true exactly while an invocation of handleSubmit is
\* pending; an invocation ends with isSubmitting false and a success or error
\* message; the info messages of handleSubmit are shown only while it is
\* pending; and, the awaited promises settling, every submission ends.
C11_SubmissionTerminates ==
    /\ [](isSubmitting <=> sub.pc # "idle")
    /\ [](ev.op \in SubmitEnds =>
            ~isSubmitting /\ message.type \in {"success", "error"})
    /\ [](message.text \in SubmitInfoTexts => isSubmitting)
    /\ (isSubmitting ~> (~isSubmitting /\ ev.op \in SubmitEnds))

\* C11 witness: an on-chain submission has ended with an error message.
C11_Witness ==
    /\ ev.op = "govDone"
    /\ ~ev.result.success
    /\ ~isSubmitting
    /\ message.type = "error"


\* C12: no handleSubmit starts while another one is pending; while
\* isSubmitting the submit button and the fields are disabled; formData does
\* not change between the start of a submission and its end, where it is
\* reset (success) or left as submitted (failure, thrown error).
C12_OneSubmissionInFlight ==
    /\ ~sub.overlap
    /\ (isSubmitting =>
          /\ submitDisabled(isSubmitting, walletConnected, votingPower)
          /\ fieldsDisabled(isSubmitting))
    /\ (sub.pc # "idle" => isSubmitting /\ formData = sub.data)
    /\ (ev.op \in SubmitEnds =>
          /\ ~ev.inv.overlap
          /\ formData = IF ev.op # "submitThrew" /\ ev.result.success
                        THEN InitialFormData
                        ELSE ev.inv.data)

\* C12 witness: a submission of edited data is waiting for its transaction.
C12_Witness ==
    /\ sub.pc = "wait"
    /\ isSubmitting
    /\ formData = sub.data
    /\ formData # InitialFormData


\* A step that ends handleSubmit without success
SubmissionFails ==
    /\ ev'.op \in SubmitEnds
    /\ ev'.op = "submitThrew" \/ ~ev'.result.success

\* C13: a step in which a submission fails (submitGovernanceProposal or
\* submitProposal returns success = false, or handleSubmit catches an error)
\* changes neither formData, which is still the submitted data, nor
\* walletConnected, walletAddress, signer or votingPower: of the component's
\* state only message and isSubmitting may change.
C13_FailureKeepsFormAndWallet ==
    [][SubmissionFails =>
         /\ UNCHANGED <<formData, walletConnected, walletAddress, signer,
                        votingPower>>
         /\ formData' = ev'.inv.data
         /\ ~isSubmitting']_vars

\* C13 witness: an on-chain submission failed and the edited form, the
\* connected wallet and its signer are as they were submitted.
C13_Witness ==
    /\ ev.op = "govDone"
    /\ ~ev.result.success
    /\ formData = ev.inv.data
    /\ formData # InitialFormData
    /\ walletConnected
    /\ signer = ev.inv.signer
    /\ signer # Null


\* C14: when connectWallet returns, success = true (with the address and
\* its signer) only if the accounts were granted and getNetwork returned
\* Sepolia's chain id or the switch request resolved; a switch that failed
\* gives success = false, with the error 'Please add the Sepolia Testnet
\* network to your wallet' when its code is 4902; a switch is requested
\* exactly when getNetwork returned another chain, and at most once.
C14_NetworkCheckedBeforeSuccess ==
    /\ \A i \in Slots :
          /\ conn[i].nSwitch = (IF conn[i].chain \in {0, SEPOLIA_CHAIN_ID}
                                THEN 0 ELSE 1)
          /\ conn[i].switched # "none" => conn[i].nSwitch = 1
    /\ (ev.op = "connectDone" =>
          LET c == conn[ev.slot]
          IN  /\ ev.result.success =>
                   /\ c.accounts
                   /\ c.chain = SEPOLIA_CHAIN_ID \/ c.switched = "ok"
                   /\ ev.result.address \in Accounts
                   /\ ev.result.signer = SignerOf(ev.result.address)
              /\ c.switched = "failed" => ~ev.result.success
              /\ (c.switched = "failed" /\ c.switchCode = CHAIN_NOT_ADDED) =>
                   ev.result.error =
                     "Please add the Sepolia Testnet network to your wallet")

\* C14 witness: connectWallet found another chain, the switch to Sepolia
\* resolved, and it returned success.
C14_Witness ==
    /\ ev.op = "connectDone"
    /\ ev.result.success
    /\ conn[ev.slot].chain = 1
    /\ conn[ev.slot].switched = "ok"


\* C15: in every state a connected wallet has an address and a signer, and
\* a voting power is shown only for a connected wallet; no step taken with
\* the wallet connected disconnects it or clears its address or signer.
C15_WalletSessionConsistent ==
    /\ [](walletConnected => walletAddress # Null /\ signer # Null)
    /\ [](votingPower # Null => walletConnected)
    /\ [][walletConnected =>
            walletConnected' /\ walletAddress' # Null /\ signer' # Null]_vars

\* C15 witness: the wallet is still connected, with its address and signer,
\* after the fetch of its voting power failed.
C15_Witness ==
    /\ ev.op = "votingPower"
    /\ ~ev.result.success
    /\ walletConnected
    /\ walletAddress \in Accounts
    /\ signer = SignerOf(walletAddress)
    /\ votingPower = Null


ConnectPending == \E i \in Slots : conn[i].pc # "idle"

\* C17: a connection attempt and a submission are never pending together.
\* (Nothing disables the submit button while connectWallet is awaited, so a
\* submission can start then, and the connect result lands on its message.)
C17_Original == ~(ConnectPending /\ sub.pc # "idle")

\* The message handleSubmit leaves for the invocation that has just ended
IsSubmissionOutcome(m) ==
    CASE ev.op = "govDone" /\ ev.result.success -> IsOnChainSuccess(m)
      [] ev.op = "govDone" /\ ~ev.result.success ->
            /\ m.type = "error"
            /\ m.text \in {ev.result.error,
                           "Failed to submit proposal to blockchain"}
      [] ev.op = "mockDone" ->
            /\ m.type = "success"
            /\ Slice(m.text, 0, 25) = "Proposal submitted (mock)"
      [] ev.op = "submitThrew" ->
            /\ m.type = "error"
            /\ m.text \in {ev.inv.thrown.message, "An unexpected error occurred"}
      [] OTHER -> FALSE

\* The half of C17 that holds: no connection attempt starts while a
\* submission is pending (the Connect Wallet button is disabled while
\* isSubmitting), and at the step that ends handleSubmit the message shown is
\* that submission's outcome.
NoConnectStartsWhileSubmitting ==
    /\ (ev.op = "connectClick" => ~isSubmitting /\ sub.pc = "idle")
    /\ ((ev.op = "connectDone" /\ conn[ev.slot] = IdleConn) =>
          ~isSubmitting /\ sub.pc = "idle")
    /\ (ev.op \in SubmitEnds => IsSubmissionOutcome(message))

\* A submission has ended with its outcome shown while a connection attempt,
\* started before it, is still pending: its result will replace the message.
OutcomeShownWhileConnectPending ==
    /\ ev.op \in SubmitEnds
    /\ ConnectPending
    /\ IsSubmissionOutcome(message)

====
